---- MODULE Spec2Model ----
(***************************************************************************)
(* PigeonCNI (src/k8s/cni/main.go): a CNI plugin that wires container      *)
(* network namespaces into a point-to-point veth topology.  Every plugin   *)
(* invocation (ADD, DEL, CHECK, VERSION) is one short-lived OS process;    *)
(* the kernel's links, addresses and routes and the symlinks under         *)
(* /var/run/netns are the state the invocations share.  Each action below  *)
(* is one system call (or one local step) of one invocation, so that       *)
(* concurrent invocations interleave exactly at the system calls.          *)
(*                                                                         *)
(* Strings the code takes apart or puts together (interface names, the     *)
(* session key, CIDR addresses) are sequences of tokens; strings it only   *)
(* passes along (container IDs, namespace paths) are TLA+ strings.         *)
(*                                                                         *)
(* The module also holds the shutdown of the performance server            *)
(* (src/k8s/apps/pisp-perf/main.go): Stop, the accept loop and the TCP     *)
(* client handlers, one action per step between two synchronisations.      *)
(***************************************************************************)
EXTENDS Integers, Sequences, FiniteSets, TLC

VARIABLES
    registry,   \* /var/run/netns: entry name -> symlink target (a netns path)
    links,      \* kernel links: ifindex -> [ns, name, up, addrs, peer, mac, session]
    routes,     \* kernel default routes: set of [ns, gw, link]
    pc,         \* per process: the next step of its invocation
    inv,        \* per process: the invocation's inputs (CNI_* and stdin)
    loc,        \* per process: the invocation's local variables
    curns,      \* per process: the network namespace of the OS thread it runs on
    started,    \* number of invocations started so far
    prev,       \* the invocation that the latest started one of a process replaced
    parked,     \* per process: the network namespace of its other OS thread
    ctx,        \* perf server: s.ctx has been cancelled
    tcpListener, \* perf server: "open" or "closed"
    clients,    \* perf server: the keys of s.clients
    conn,       \* perf server: connection -> [state, lines, sent, peerClosed, closed]
    stop,       \* perf server: the position of Server.Stop
    acceptor,   \* perf server: the position of acceptTCPConnections and its conn
    handler,    \* perf server: connection -> the position of its handleTCPClient
    cleaner     \* perf server: the position of cleanupStaleClients

\* The state of the performance server (src/k8s/apps/pisp-perf/main.go).
server == <<ctx, tcpListener, clients, conn, stop, acceptor, handler, cleaner>>

\* The state of the CNI plugin and of the host it runs on.
plugin == <<registry, links, routes, pc, inv, loc, curns, started, prev, parked>>

vars == <<plugin, server>>

----------------------------------------------------------------------------
(* Bounds and input domains *)

MaxInvocations == 4

\* The same for the runs in which system calls may fail.
MaxFaultInvocations == 3

Procs == {"p1", "p2"}

RootNS == "root"

\* The containers a runtime attaches: CNI_CONTAINERID and CNI_NETNS.
Containers ==
    { [id |-> "id1", netns |-> "/proc/101/ns/net"],
      [id |-> "id2", netns |-> "/proc/202/ns/net"] }

\* The namespace a netns path names.
NsOfPath(path) ==
    CASE path = "/proc/101/ns/net" -> "ns1"
      [] path = "/proc/202/ns/net" -> "ns2"
      [] OTHER -> ""

IPs == {"10.12.0.1", "10.12.0.2"}

\* Decimal prefix lengths, as text and as numbers.
PrefixLen(tok) ==
    CASE tok = "32" -> 32
      [] tok = "24" -> 24
      [] tok = "16" -> 16
      [] OTHER -> -1

ClientAddrs == { <<"10.12.0.1", "/", "32">>, <<"not-an-ip">> }
GwAddrs     == { <<"10.12.0.2", "/", "32">>, <<"not-an-ip">> }

ClientInterfaces  == { <<"c">> }
GatewayInterfaces == { <<"g">> }
SessionNames      == { <<"n">> }
IfNames           == { <<"e">>, <<"g">> }


----------------------------------------------------------------------------
(* Strings *)

\* "pisp", the prefix of a veth end's transient name.
Prefix == <<"p", "i", "s", "p">>

\* fmt.Sprintf("pisp%s", name)
VethName(name) == Prefix \o name

\* fmt.Sprintf("%s-%s-%s", conf.ClientInterface, conf.Name, conf.GatewayInterface)
SessionKey(conf) ==
    conf.ClientInterface \o <<"-">> \o conf.Name \o <<"-">> \o conf.GatewayInterface

\* The session triple of a configuration.
Triple(conf) == <<conf.ClientInterface, conf.Name, conf.GatewayInterface>>

\* filepath.Join("/var/run/netns", args.ContainerID): the entry's name.
ContainerKey(id) == <<id>>

\* HostPart that keeps the CIDR suffix.
HostPart_Whole(s) == s

\* strings.Split(s, "/")[0]: the tokens before the first "/".
RECURSIVE HostPart(_)
HostPart(s) ==
    IF s = <<>> \/ Head(s) = "/" THEN <<>> ELSE <<Head(s)>> \o HostPart(Tail(s))

\* len(strings.Split(s, "/")) - 1: the number of "/" in s.
SlashCount(s) == Cardinality({i \in 1..Len(s) : s[i] = "/"})

\* net.ParseCIDR / netlink.ParseAddr: an IPv4 address, "/", a prefix length.
IsCIDR(s) ==
    /\ Len(s) = 3
    /\ s[1] \in IPs
    /\ s[2] = "/"
    /\ PrefixLen(s[3]) >= 0

ParsedAddr(s) == [ip |-> s[1], len |-> PrefixLen(s[3])]

\* net.ParseIP: the IP a string denotes, "" (nil) when it denotes none.
ParseIP(s) == IF Len(s) = 1 /\ s[1] \in IPs THEN s[1] ELSE ""

\* getSubnetMaskSize
getSubnetMaskSize(address) ==
    IF SlashCount(address) >= 1 /\ SlashCount(address) = 1 /\ IsCIDR(address)
    THEN PrefixLen(address[3])
    ELSE 24

----------------------------------------------------------------------------
(* Records *)

EmptyConf ==
    [ClientAddress |-> <<>>, GwAddress |-> <<>>, ClientInterface |-> <<>>,
     GatewayInterface |-> <<>>, Name |-> <<>>]

\* No current.Result: an invocation that has printed none.
NoResult == [Interfaces |-> <<>>, IPs |-> <<>>]

NoInv ==
    [cmd |-> "", parseable |-> FALSE, conf |-> EmptyConf, id |-> "", netns |-> "",
     ifName |-> <<>>]

NoLoc ==
    [conf |-> EmptyConf, address |-> <<>>, mac |-> 0, err |-> "", targetNS |-> "",
     link |-> 0, origns |-> "", linkName |-> <<>>, cfgAddress |-> <<>>,
     finalName |-> <<>>, result |-> NoResult, output |-> "",
     \* history of the invocation, read by the properties only
     ran |-> {}, touched |-> {}, nsAtCall |-> "", calls |-> 0,
     moved |-> {}, seen |-> {}, pre |-> [root |-> {}, target |-> {}],
     tolerated |-> {}, fatal |-> "", injected |-> FALSE]

NoPrev == [valid |-> FALSE, inv |-> NoInv, err |-> "", result |-> NoResult,
           output |-> "", touched |-> {}, ran |-> {}, injected |-> FALSE,
           pre |-> [root |-> {}, target |-> {}]]

\* Inputs of one invocation.
Confs ==
    [ClientAddress : ClientAddrs, GwAddress : GwAddrs,
     ClientInterface : ClientInterfaces, GatewayInterface : GatewayInterfaces,
     Name : SessionNames]

\* The configurations whose two addresses are well-formed CIDR.
GoodConfs == {c \in Confs : IsCIDR(c.ClientAddress) /\ IsCIDR(c.GwAddress)}

AddInputs(confs, ifnames, containers) ==
    { [cmd |-> "ADD", parseable |-> TRUE, conf |-> c, id |-> k.id, netns |-> k.netns,
       ifName |-> n] :
         c \in confs, k \in containers, n \in ifnames }

DelInputs(confs) ==
    { [cmd |-> "DEL", parseable |-> TRUE, conf |-> c, id |-> k.id, netns |-> k.netns,
       ifName |-> <<"e">>] :
         c \in confs, k \in Containers }

\* Stdin that is not JSON.
GarbageInputs ==
    { [cmd |-> m, parseable |-> FALSE, conf |-> EmptyConf, id |-> "id1",
       netns |-> "/proc/101/ns/net", ifName |-> <<"e">>] :
         m \in {"ADD", "DEL"} }

OtherInputs ==
    { [cmd |-> m, parseable |-> TRUE, conf |-> EmptyConf, id |-> "id1",
       netns |-> "/proc/101/ns/net", ifName |-> <<"e">>] :
         m \in {"CHECK", "VERSION"} }

\* CHECK for an attachment an ADD may have made, and CHECK with stdin that is
\* not JSON.
CheckInputs ==
    { [cmd |-> "CHECK", parseable |-> TRUE, conf |-> c, id |-> "id2",
       netns |-> "/proc/202/ns/net", ifName |-> <<"g">>] : c \in GoodConfs }
      \cup { [cmd |-> "CHECK", parseable |-> FALSE, conf |-> EmptyConf, id |-> "id1",
              netns |-> "/proc/101/ns/net", ifName |-> <<"e">>] }

----------------------------------------------------------------------------
(* Kernel and filesystem primitives *)

\* netlink.LinkByName in namespace ns: the ifindexes bearing the name (none or one).
LinkByName(ns, name) == {i \in DOMAIN links : links[i].ns = ns /\ links[i].name = name}

\* The names of the links of a namespace.
NamesIn(ns) == {links[i].name : i \in {j \in DOMAIN links : links[j].ns = ns}}

\* os.Remove that leaves the entry where it is.
Removed_Nothing(reg, key) == reg

\* os.Remove of a registry entry.
Removed(reg, key) == [k \in (DOMAIN reg) \ {key} |-> reg[k]]

\* os.Symlink(target, entry); the caller has checked that the entry is absent.
Symlinked(reg, key, target) == (key :> target) @@ reg

\* netns.GetFromPath of a registry entry: follows the symlink.
ResolveEntry(reg, key) == IF key \in DOMAIN reg THEN NsOfPath(reg[key]) ELSE ""


\* The only element of a set of one.
TheOne(S) == CHOOSE x \in S : TRUE

\* A new veth pair in namespace ns: two links, down, without addresses.
WithVethPair(ls, ns, name, peerName, session) ==
    LET i == Cardinality(DOMAIN ls) + 1
        j == i + 1
        end(n, me, other) ==
            [ns |-> ns, name |-> n, up |-> FALSE, addrs |-> {}, peer |-> other,
             mac |-> me, session |-> session]
    IN  [k \in (DOMAIN ls) \cup {i, j} |->
            IF k = i THEN end(name, i, j)
            ELSE IF k = j THEN end(peerName, j, i)
            ELSE ls[k]]

\* netlink.LinkSetNsFd succeeds: the link is in the caller's namespace and the
\* target namespace has no link of its name.
CanMove(i, from, to) ==
    /\ i \in DOMAIN links
    /\ links[i].ns = from
    /\ \/ to = from
       \/ LinkByName(to, links[i].name) = {}

\* The kernel closes a device that changes namespace and drops its addresses.
MovedLink(l, to) ==
    IF l.ns = to THEN l ELSE [l EXCEPT !.ns = to, !.up = FALSE, !.addrs = {}]

\* ReturnNS with the restore on the success path only.
ReturnNS_OnSuccessOnly(p, err) == IF err = "" THEN loc[p].origns ELSE curns[p]

\* The namespace the thread is in after a namespace-scoped function returns with
\* err: `defer netns.Set(origns)` runs on every return that follows a successful
\* netns.Set(ns).
ReturnNS(p, err) == loc[p].origns

\* A return from cmdAdd/cmdDel/cmdCheck with an error: the process exits.
Failed(l, msg) == [l EXCEPT !.err = msg]

----------------------------------------------------------------------------
(* The performance server: its connections and goroutines *)

\* The TCP connections peers may open, by conn.RemoteAddr().String().
Conns == {"k1", "k2"}

\* The lines a peer sends on one connection.
MaxLines == 1

NoConn == [state |-> "none", lines |-> 0, sent |-> 0, peerClosed |-> FALSE,
           closed |-> FALSE]

\* NewServer and Start have returned: the listener is open, the context is not
\* cancelled, the map is empty, the accept loop and the cleaner are running,
\* Stop has not been called.
ServerInit ==
    /\ ctx = FALSE
    /\ tcpListener = "open"
    /\ clients = {}
    /\ conn = [k \in Conns |-> NoConn]
    /\ stop = "idle"
    /\ acceptor = [pc |-> "select", conn |-> ""]
    /\ handler = [k \in Conns |-> "none"]
    /\ cleaner = "select"

----------------------------------------------------------------------------
(* Initial state: no registry entry, no link but those of no interest, every
   process slot free. *)

Init ==
    /\ registry = [k \in {} |-> ""]
    /\ links = [i \in {} |-> 0]
    /\ routes = {}
    /\ pc = [p \in Procs |-> "idle"]
    /\ inv = [p \in Procs |-> NoInv]
    /\ loc = [p \in Procs |-> NoLoc]
    /\ curns = [p \in Procs |-> RootNS]
    /\ started = 0
    /\ prev = NoPrev
    /\ parked = [p \in Procs |-> RootNS]
    /\ ServerInit

\* EntryOf that takes every command it does not know for an ADD.
EntryOf_VersionAsAdd(cmd) ==
    CASE cmd = "ADD" -> "add_parse"
      [] cmd = "DEL" -> "del_parse"
      [] cmd = "CHECK" -> "check"
      [] OTHER -> "add_parse"

\* EntryOf with an ADD that starts after the parse of its stdin.
EntryOf_SkipParse(cmd) ==
    CASE cmd = "ADD" -> "add_mkdir"
      [] cmd = "DEL" -> "del_parse"
      [] cmd = "CHECK" -> "check"
      [] OTHER -> "version"

\* skel.PluginMain dispatches on CNI_COMMAND.
EntryOf(cmd) ==
    CASE cmd = "ADD" -> "add_parse"
      [] cmd = "DEL" -> "del_parse"
      [] cmd = "CHECK" -> "check"
      [] OTHER -> "version"

\* The runtime starts a plugin process with input in; a slot whose process has
\* exited is reused, and what that process did is remembered in prev.
Invoke(p, in) ==
    /\ pc[p] \in {"idle", "done"}
    /\ inv' = [inv EXCEPT ![p] = in]
    /\ pc' = [pc EXCEPT ![p] = EntryOf(in.cmd)]
    /\ loc' = [loc EXCEPT ![p] =
                  [NoLoc EXCEPT !.pre = [root |-> NamesIn(RootNS),
                                         target |-> NamesIn(NsOfPath(in.netns))]]]
    /\ curns' = [curns EXCEPT ![p] = RootNS]
    /\ started' = started + 1
    /\ prev' = IF pc[p] = "done"
               THEN [valid |-> TRUE, inv |-> inv[p], err |-> loc[p].err,
                     result |-> loc[p].result, output |-> loc[p].output,
                     touched |-> loc[p].touched, ran |-> loc[p].ran,
                     injected |-> loc[p].injected, pre |-> loc[p].pre]
               ELSE prev
    /\ parked' = [parked EXCEPT ![p] = RootNS]
    /\ UNCHANGED <<registry, links, routes, server>>

----------------------------------------------------------------------------
(* cmdAdd *)

cmdAdd_Unmarshal(p) ==
    /\ pc[p] = "add_parse"
    /\ IF inv[p].parseable
       THEN /\ loc' = [loc EXCEPT ![p].conf = inv[p].conf]
            /\ pc' = [pc EXCEPT ![p] = "add_mkdir"]
       ELSE /\ loc' = [loc EXCEPT ![p] = Failed(@, "failed to parse network configuration")]
            /\ pc' = [pc EXCEPT ![p] = "done"]
    /\ UNCHANGED <<registry, links, routes, inv, curns, started, prev, parked, server>>

cmdAdd_MkdirAll(p) ==
    /\ pc[p] = "add_mkdir"
    /\ loc' = [loc EXCEPT ![p].touched = @ \cup {"mkdir"}]
    /\ pc' = [pc EXCEPT ![p] = "add_rm_id"]
    /\ UNCHANGED <<registry, links, routes, inv, curns, started, prev, parked, server>>

\* os.Remove(entry): a failure is logged and otherwise ignored.
RemoveEntry(p, key, next) ==
    /\ registry' = Removed(registry, key)
    /\ pc' = [pc EXCEPT ![p] = next]
    /\ UNCHANGED <<links, routes, inv, loc, curns, started, prev, parked, server>>

\* os.Symlink(args.Netns, entry): fails when the entry exists.
SymlinkEntry(p, key, what, msg, next) ==
    /\ IF key \in DOMAIN registry
       THEN /\ loc' = [loc EXCEPT ![p] = Failed(@, msg)]
            /\ pc' = [pc EXCEPT ![p] = "done"]
            /\ UNCHANGED registry
       ELSE /\ registry' = Symlinked(registry, key, inv[p].netns)
            /\ loc' = [loc EXCEPT ![p].touched = @ \cup {what}]
            /\ pc' = [pc EXCEPT ![p] = next]
    /\ UNCHANGED <<links, routes, inv, curns, started, prev, parked, server>>

cmdAdd_RemoveNsPath(p) ==
    /\ pc[p] = "add_rm_id"
    /\ RemoveEntry(p, ContainerKey(inv[p].id), "add_ln_id")

cmdAdd_SymlinkNsPath(p) ==
    /\ pc[p] = "add_ln_id"
    /\ SymlinkEntry(p, ContainerKey(inv[p].id), "reg_id",
                    "failed to create netns symlink", "add_rm_key")

cmdAdd_RemoveClientNSPath(p) ==
    /\ pc[p] = "add_rm_key"
    /\ RemoveEntry(p, SessionKey(loc[p].conf), "add_ln_key")

cmdAdd_SymlinkClientNSPath(p) ==
    /\ pc[p] = "add_ln_key"
    /\ SymlinkEntry(p, SessionKey(loc[p].conf), "reg_key",
                    "failed to create client netns symlink", "add_role")

\* IsGateway comparing with the wrong field of the configuration.
IsGateway_ClientInterface(ifName, conf) == ifName = conf.ClientInterface

\* if args.IfName == conf.GatewayInterface
IsGateway(ifName, conf) == ifName = conf.GatewayInterface

cmdAdd_Role(p) ==
    /\ pc[p] = "add_role"
    /\ IF IsGateway(inv[p].ifName, loc[p].conf)
       THEN /\ loc' = [loc EXCEPT ![p].address = loc[p].conf.GwAddress]
            /\ pc' = [pc EXCEPT ![p] = "gw_getns"]
       ELSE /\ loc' = [loc EXCEPT ![p].address = loc[p].conf.ClientAddress]
            /\ pc' = [pc EXCEPT ![p] = "cl_linkadd"]
    /\ UNCHANGED <<registry, links, routes, inv, curns, started, prev, parked, server>>

\* net.CIDRMask(ones, bits): a mask of `ones` ones, nil (-1) when there is none.
CIDRMask(ones, bits) == IF ones >= 0 /\ ones <= bits THEN ones ELSE -1

\* ResultOf with an interface entry that lacks the MAC.
ResultOf_NoMac(ifName, netns, mac, address) ==
    [Interfaces |-> << [Name |-> ifName, Mac |-> 0, Sandbox |-> netns] >>,
     IPs |-> << [Address |-> [IP |-> ParseIP(HostPart(address)),
                              Mask |-> CIDRMask(getSubnetMaskSize(address), 32)],
                 Gateway |-> "0.0.0.0", Interface |-> 0] >>]

\* The result cmdAdd assembles (lines 105-124): the interfaces and the IPs, each
\* a list of one.
ResultOf(ifName, netns, mac, address) ==
    [Interfaces |-> << [Name |-> ifName, Mac |-> mac, Sandbox |-> netns] >>,
     IPs |-> << [Address |-> [IP |-> ParseIP(HostPart(address)),
                              Mask |-> CIDRMask(getSubnetMaskSize(address), 32)],
                 Gateway |-> "0.0.0.0", Interface |-> 0] >>]

cmdAdd_PrintResult(p) ==
    /\ pc[p] = "add_result"
    /\ loc' = [loc EXCEPT ![p].result =
                              ResultOf(inv[p].ifName, inv[p].netns, loc[p].mac,
                                       loc[p].address),
                          ![p].output = "result"]
    /\ pc' = [pc EXCEPT ![p] = "done"]
    /\ UNCHANGED <<registry, links, routes, inv, curns, started, prev, parked, server>>

----------------------------------------------------------------------------
(* Steps shared by handleGateway and handleClient *)

\* FindLink that waits until a link of the name is there.
FindLink_Wait(p, name, msg, next) ==
    LET found == LinkByName(curns[p], name) IN
    /\ found # {}
    /\ loc' = [loc EXCEPT ![p].link = TheOne(found),
                          ![p].seen = @ \cup {TheOne(found)}]
    /\ pc' = [pc EXCEPT ![p] = next]
    /\ UNCHANGED <<registry, links, routes, inv, curns, started, prev, parked, server>>

\* FindLink without the test of LinkByName's error.
FindLink_NoCheck(p, name, msg, next) ==
    LET found == LinkByName(curns[p], name) IN
    /\ loc' = [loc EXCEPT ![p].link = IF found = {} THEN 0 ELSE TheOne(found),
                          ![p].seen = @ \cup found]
    /\ pc' = [pc EXCEPT ![p] = next]
    /\ UNCHANGED <<registry, links, routes, inv, curns, started, prev, parked, server>>

\* netlink.LinkByName(name) in the thread's namespace, the link kept in `link`.
FindLink(p, name, msg, next) ==
    LET found == LinkByName(curns[p], name) IN
    /\ IF found = {}
       THEN /\ loc' = [loc EXCEPT ![p] = Failed(@, msg)]
            /\ pc' = [pc EXCEPT ![p] = "done"]
       ELSE /\ loc' = [loc EXCEPT ![p].link = TheOne(found),
                                  ![p].seen = @ \cup {TheOne(found)}]
            /\ pc' = [pc EXCEPT ![p] = next]
    /\ UNCHANGED <<registry, links, routes, inv, curns, started, prev, parked, server>>

\* netlink.LinkSetNsFd(link, targetNS), then the call of configureInterfaceInNS
\* (targetNS, linkName, address, args.IfName).
MoveLink(p, msg, linkName, address) ==
    LET i == loc[p].link
        to == loc[p].targetNS
    IN
    /\ IF ~CanMove(i, curns[p], to)
       THEN /\ loc' = [loc EXCEPT ![p] = Failed(@, msg)]
            /\ pc' = [pc EXCEPT ![p] = "done"]
            /\ UNCHANGED <<links, routes>>
       ELSE /\ links' = [links EXCEPT ![i] = MovedLink(@, to)]
            /\ routes' = IF links[i].ns = to THEN routes
                         ELSE {r \in routes : r.link # i}
            /\ loc' = [loc EXCEPT ![p].touched = @ \cup {"move"},
                                  ![p].moved = @ \cup {i},
                                  ![p].linkName = linkName,
                                  ![p].cfgAddress = address,
                                  ![p].finalName = inv[p].ifName]
            /\ pc' = [pc EXCEPT ![p] = "cf_getorig"]
    /\ UNCHANGED <<registry, inv, curns, started, prev, parked, server>>

----------------------------------------------------------------------------
(* handleGateway *)

handleGateway_GetFromPath(p) ==
    /\ pc[p] = "gw_getns"
    /\ IF NsOfPath(inv[p].netns) = ""
       THEN /\ loc' = [loc EXCEPT ![p] = Failed([@ EXCEPT !.ran = @ \cup {"handleGateway"}],
                                                 "failed to get netns")]
            /\ pc' = [pc EXCEPT ![p] = "done"]
       ELSE /\ loc' = [loc EXCEPT ![p].targetNS = NsOfPath(inv[p].netns),
                                  ![p].ran = @ \cup {"handleGateway"}]
            /\ pc' = [pc EXCEPT ![p] = "gw_find"]
    /\ UNCHANGED <<registry, links, routes, inv, curns, started, prev, parked, server>>

\* vethName derived from the name the runtime asked for, without the prefix.
vethName_NoPrefix(conf) == conf.GatewayInterface

\* vethName := fmt.Sprintf("pisp%s", conf.GatewayInterface)
vethName(conf) == VethName(conf.GatewayInterface)

handleGateway_LinkByName(p) ==
    /\ pc[p] = "gw_find"
    /\ FindLink(p, vethName(loc[p].conf), "failed to find veth interface", "gw_move")

handleGateway_LinkSetNsFd(p) ==
    /\ pc[p] = "gw_move"
    /\ MoveLink(p, "failed to move interface to namespace",
                vethName(loc[p].conf), loc[p].conf.GwAddress)

----------------------------------------------------------------------------
(* handleClient *)

\* clientVeth := fmt.Sprintf("pisp%s", args.IfName)
clientVeth(ifName, conf) == VethName(ifName)

\* gatewayVeth := fmt.Sprintf("pisp%s", conf.GatewayInterface)
gatewayVeth(conf) == VethName(conf.GatewayInterface)

\* The error of LinkAdd, AddrAdd or RouteAdd is let through whatever it is.
Tolerated_Never(errno) == FALSE

\* err != nil && !strings.Contains(err.Error(), "file exists"): the error of
\* LinkAdd, AddrAdd or RouteAdd that the code takes for success.
Tolerated(errno) == errno = "EEXIST"

\* netlink.LinkAdd(veth): "file exists" when either name is taken.
handleClient_LinkAdd(p) ==
    LET name == clientVeth(inv[p].ifName, loc[p].conf)
        peer == gatewayVeth(loc[p].conf)
        exists == LinkByName(curns[p], name) # {} \/ LinkByName(curns[p], peer) # {}
    IN
    /\ pc[p] = "cl_linkadd"
    /\ IF exists
       THEN /\ IF Tolerated("EEXIST")
               THEN /\ loc' = [loc EXCEPT ![p].ran = @ \cup {"handleClient"},
                                          ![p].tolerated = @ \cup {"veth"}]
                    /\ pc' = [pc EXCEPT ![p] = "cl_getns"]
               ELSE /\ loc' = [loc EXCEPT ![p] =
                                 Failed([@ EXCEPT !.ran = @ \cup {"handleClient"}],
                                        "failed to create veth pair")]
                    /\ pc' = [pc EXCEPT ![p] = "done"]
            /\ UNCHANGED links
       ELSE /\ links' = WithVethPair(links, curns[p], name, peer, Triple(loc[p].conf))
            /\ loc' = [loc EXCEPT ![p].ran = @ \cup {"handleClient"},
                                  ![p].touched = @ \cup {"veth"}]
            /\ pc' = [pc EXCEPT ![p] = "cl_getns"]
    /\ UNCHANGED <<registry, routes, inv, curns, started, prev, parked, server>>

\* netns.GetFromPath(filepath.Join("/var/run/netns", clientNSPath))
handleClient_GetFromPath(p) ==
    LET ns == ResolveEntry(registry, SessionKey(loc[p].conf)) IN
    /\ pc[p] = "cl_getns"
    /\ IF ns = ""
       THEN /\ loc' = [loc EXCEPT ![p] = Failed(@, "failed to get client netns")]
            /\ pc' = [pc EXCEPT ![p] = "done"]
       ELSE /\ loc' = [loc EXCEPT ![p].targetNS = ns]
            /\ pc' = [pc EXCEPT ![p] = "cl_find"]
    /\ UNCHANGED <<registry, links, routes, inv, curns, started, prev, parked, server>>

handleClient_LinkByName(p) ==
    /\ pc[p] = "cl_find"
    /\ FindLink(p, clientVeth(inv[p].ifName, loc[p].conf),
                "failed to find client veth", "cl_move")

handleClient_LinkSetNsFd(p) ==
    /\ pc[p] = "cl_move"
    /\ MoveLink(p, "failed to move client interface to namespace",
                clientVeth(inv[p].ifName, loc[p].conf), loc[p].conf.ClientAddress)

----------------------------------------------------------------------------
(* The namespace-scoped functions: configureInterfaceInNS, setupClientRouting *)

\* origns, err := netns.Get()
GetOrigNS(p, next) ==
    /\ loc' = [loc EXCEPT ![p].origns = curns[p],
                          ![p].nsAtCall = curns[p],
                          ![p].calls = @ + 1]
    /\ pc' = [pc EXCEPT ![p] = next]
    /\ UNCHANGED <<registry, links, routes, inv, curns, started, prev, parked, server>>

\* netns.Set(ns) on entry; on success `defer netns.Set(origns)` is registered.
EnterNS(p, next) ==
    /\ curns' = [curns EXCEPT ![p] = loc[p].targetNS]
    /\ pc' = [pc EXCEPT ![p] = next]
    /\ UNCHANGED <<registry, links, routes, inv, loc, started, prev, parked, server>>

\* ExitWith that notes the error and goes on to emit a result.
ExitWith_GoOn(p, msg) ==
    /\ loc' = [loc EXCEPT ![p] = Failed(@, msg)]
    /\ pc' = [pc EXCEPT ![p] = "add_result"]
    /\ curns' = [curns EXCEPT ![p] = ReturnNS(p, msg)]

\* A return with an error from inside the scoped block: the deferred restore
\* runs, cmdAdd returns the error.  What the step changed of links or routes is
\* stated by the step.
ExitWith(p, msg) ==
    /\ loc' = [loc EXCEPT ![p] = Failed(@, msg)]
    /\ pc' = [pc EXCEPT ![p] = "done"]
    /\ curns' = [curns EXCEPT ![p] = ReturnNS(p, msg)]

configureInterfaceInNS_Get(p) ==
    /\ pc[p] = "cf_getorig"
    /\ GetOrigNS(p, "cf_setns")

configureInterfaceInNS_Set(p) ==
    /\ pc[p] = "cf_setns"
    /\ EnterNS(p, "cf_find")

\* link, err := netlink.LinkByName(linkName)
configureInterfaceInNS_LinkByName(p) ==
    LET found == LinkByName(curns[p], loc[p].linkName) IN
    /\ pc[p] = "cf_find"
    /\ IF found = {}
       THEN ExitWith(p, "failed to find link")
       ELSE /\ loc' = [loc EXCEPT ![p].link = TheOne(found),
                                  ![p].seen = @ \cup {TheOne(found)}]
            /\ pc' = [pc EXCEPT ![p] =
                         IF loc[p].linkName # loc[p].finalName THEN "cf_rename"
                         ELSE "cf_up"]
            /\ UNCHANGED curns
    /\ UNCHANGED <<registry, links, routes, inv, started, prev, parked, server>>

\* netlink.LinkSetName(link, finalName): "file exists" when the name is taken.
configureInterfaceInNS_LinkSetName(p) ==
    LET i == loc[p].link IN
    /\ pc[p] = "cf_rename"
    /\ IF LinkByName(links[i].ns, loc[p].finalName) # {}
       THEN /\ ExitWith(p, "failed to rename interface")
            /\ UNCHANGED links
       ELSE /\ links' = [links EXCEPT ![i].name = loc[p].finalName]
            /\ loc' = [loc EXCEPT ![p].touched = @ \cup {"rename"}]
            /\ pc' = [pc EXCEPT ![p] = "cf_refind"]
            /\ UNCHANGED curns
    /\ UNCHANGED <<registry, routes, inv, started, prev, parked, server>>

\* link, err = netlink.LinkByName(finalName)
configureInterfaceInNS_LinkByFinalName(p) ==
    LET found == LinkByName(curns[p], loc[p].finalName) IN
    /\ pc[p] = "cf_refind"
    /\ IF found = {}
       THEN ExitWith(p, "failed to find renamed link")
       ELSE /\ loc' = [loc EXCEPT ![p].link = TheOne(found),
                                  ![p].seen = @ \cup {TheOne(found)}]
            /\ pc' = [pc EXCEPT ![p] = "cf_up"]
            /\ UNCHANGED curns
    /\ UNCHANGED <<registry, links, routes, inv, started, prev, parked, server>>

configureInterfaceInNS_LinkSetUp(p) ==
    LET i == loc[p].link IN
    /\ pc[p] = "cf_up"
    /\ links' = [links EXCEPT ![i].up = TRUE]
    /\ loc' = [loc EXCEPT ![p].touched = @ \cup {"up"}]
    /\ pc' = [pc EXCEPT ![p] = "cf_addr"]
    /\ UNCHANGED <<registry, routes, inv, curns, started, prev, parked, server>>

\* netlink.ParseAddr(address), then netlink.AddrAdd(link, addr): "file exists"
\* when the link has the address.
configureInterfaceInNS_AddrAdd(p) ==
    LET i == loc[p].link
        a == loc[p].cfgAddress
    IN
    /\ pc[p] = "cf_addr"
    /\ IF ~IsCIDR(a)
       THEN /\ ExitWith(p, "failed to parse address")
            /\ UNCHANGED links
       ELSE IF ParsedAddr(a) \in links[i].addrs /\ ~Tolerated("EEXIST")
       THEN /\ ExitWith(p, "failed to add address")
            /\ UNCHANGED links
       ELSE /\ IF ParsedAddr(a) \in links[i].addrs
               THEN /\ loc' = [loc EXCEPT ![p].tolerated = @ \cup {"addr"}]
                    /\ UNCHANGED links
               ELSE /\ links' = [links EXCEPT ![i].addrs = @ \cup {ParsedAddr(a)}]
                    /\ loc' = [loc EXCEPT ![p].touched = @ \cup {"addr"}]
            /\ pc' = [pc EXCEPT ![p] = "cf_setns2"]
            /\ UNCHANGED curns
    /\ UNCHANGED <<registry, routes, inv, started, prev, parked, server>>

\* The second netns.Set(ns) (line 263); the thread is still in ns.
configureInterfaceInNS_SetForMAC(p) ==
    /\ pc[p] = "cf_setns2"
    /\ curns' = [curns EXCEPT ![p] = loc[p].targetNS]
    /\ pc' = [pc EXCEPT ![p] = "cf_mac"]
    /\ UNCHANGED <<registry, links, routes, inv, loc, started, prev, parked, server>>

\* The configurator's last step returning the hardware address of the peer of
\* the link it finds.
configureInterfaceInNS_HardwareAddr_Peer(p) ==
    LET found == LinkByName(curns[p], loc[p].finalName) IN
    /\ pc[p] = "cf_mac"
    /\ IF found = {}
       THEN ExitWith(p, "Link not found")
       ELSE /\ loc' = [loc EXCEPT ![p].mac = links[links[TheOne(found)].peer].mac,
                                  ![p].seen = @ \cup {TheOne(found)}]
            /\ pc' = [pc EXCEPT ![p] =
                         IF "handleGateway" \in loc[p].ran THEN "add_result"
                         ELSE "rt_getorig"]
            /\ curns' = [curns EXCEPT ![p] = ReturnNS(p, "")]
    /\ UNCHANGED <<registry, links, routes, inv, started, prev, parked, server>>

\* link, err := netlink.LinkByName(finalName); mac = link.Attrs().HardwareAddr;
\* the function returns and the caller goes on.
configureInterfaceInNS_HardwareAddr(p) ==
    LET found == LinkByName(curns[p], loc[p].finalName) IN
    /\ pc[p] = "cf_mac"
    /\ IF found = {}
       THEN ExitWith(p, "Link not found")
       ELSE /\ loc' = [loc EXCEPT ![p].mac = links[TheOne(found)].mac,
                                  ![p].seen = @ \cup {TheOne(found)}]
            /\ pc' = [pc EXCEPT ![p] =
                         IF "handleGateway" \in loc[p].ran THEN "add_result"
                         ELSE "rt_getorig"]
            /\ curns' = [curns EXCEPT ![p] = ReturnNS(p, "")]
    /\ UNCHANGED <<registry, links, routes, inv, started, prev, parked, server>>

setupClientRouting_Get(p) ==
    /\ pc[p] = "rt_getorig"
    /\ GetOrigNS(p, "rt_setns")

setupClientRouting_Set(p) ==
    /\ pc[p] = "rt_setns"
    /\ EnterNS(p, "rt_route")

\* The name setupClientRouting looks the link up by: handleClient passes
\* clientVeth (line 193).
RoutingLinkName(p) == loc[p].linkName

\* netlink.RouteAdd of a default route: "file exists" when the namespace has a
\* default route already.
setupClientRouting_RouteAdd(p) ==
    LET found == LinkByName(curns[p], RoutingLinkName(p))
        gwIP == ParseIP(HostPart(loc[p].conf.GwAddress))
    IN
    /\ pc[p] = "rt_route"
    /\ IF found = {}
       THEN /\ ExitWith(p, "failed to find link for routing")
            /\ UNCHANGED routes
       ELSE IF gwIP = ""
       THEN /\ ExitWith(p, "invalid gateway address")
            /\ UNCHANGED routes
       ELSE IF (\E r \in routes : r.ns = curns[p]) /\ ~Tolerated("EEXIST")
       THEN /\ ExitWith(p, "failed to add default route")
            /\ UNCHANGED routes
       ELSE /\ IF \E r \in routes : r.ns = curns[p]
               THEN /\ loc' = [loc EXCEPT ![p].tolerated = @ \cup {"route"}]
                    /\ UNCHANGED routes
               ELSE /\ routes' = routes \cup
                          {[ns |-> curns[p], gw |-> gwIP, link |-> TheOne(found)]}
                    /\ loc' = [loc EXCEPT ![p].touched = @ \cup {"route"},
                                          ![p].seen = @ \cup {TheOne(found)}]
            /\ pc' = [pc EXCEPT ![p] = "add_result"]
            /\ curns' = [curns EXCEPT ![p] = ReturnNS(p, "")]
    /\ UNCHANGED <<registry, links, inv, started, prev, parked, server>>

----------------------------------------------------------------------------
(* cmdDel, cmdCheck, VERSION *)

cmdDel_Unmarshal(p) ==
    /\ pc[p] = "del_parse"
    /\ IF inv[p].parseable
       THEN /\ loc' = [loc EXCEPT ![p].conf = inv[p].conf]
            /\ pc' = [pc EXCEPT ![p] = "del_rm"]
       ELSE /\ loc' = [loc EXCEPT ![p] = Failed(@, "failed to parse network configuration")]
            /\ pc' = [pc EXCEPT ![p] = "done"]
    /\ UNCHANGED <<registry, links, routes, inv, curns, started, prev, parked, server>>

\* cmdDel that removes nothing.
DelKeys_None(p) == {}

\* The entries cmdDel removes.
DelKeys(p) == {SessionKey(loc[p].conf)}

\* os.Remove(clientNSPath); "does not exist" is tolerated; return nil.
\* cmdDel that also takes down the links of the session and flushes their
\* addresses.
cmdDel_Remove_Teardown(p) ==
    /\ pc[p] = "del_rm"
    /\ registry' = [k \in (DOMAIN registry) \ DelKeys(p) |-> registry[k]]
    /\ links' = [i \in DOMAIN links |->
                    IF links[i].session = Triple(loc[p].conf)
                    THEN [links[i] EXCEPT !.up = FALSE, !.addrs = {}]
                    ELSE links[i]]
    /\ loc' = [loc EXCEPT ![p].touched = @ \cup {"unlink"}]
    /\ pc' = [pc EXCEPT ![p] = "done"]
    /\ UNCHANGED <<routes, inv, curns, started, prev, parked, server>>

cmdDel_Remove(p) ==
    /\ pc[p] = "del_rm"
    /\ registry' = [k \in (DOMAIN registry) \ DelKeys(p) |-> registry[k]]
    /\ loc' = [loc EXCEPT ![p].touched = @ \cup {"unlink"}]
    /\ pc' = [pc EXCEPT ![p] = "done"]
    /\ UNCHANGED <<links, routes, inv, curns, started, prev, parked, server>>

\* cmdCheck that returns nil.
cmdCheck_Succeeds(p) ==
    /\ pc[p] = "check"
    /\ pc' = [pc EXCEPT ![p] = "done"]
    /\ UNCHANGED <<registry, links, routes, inv, loc, curns, started, prev, parked, server>>

cmdCheck(p) ==
    /\ pc[p] = "check"
    /\ loc' = [loc EXCEPT ![p] = Failed(@, "CHECK not supported")]
    /\ pc' = [pc EXCEPT ![p] = "done"]
    /\ UNCHANGED <<registry, links, routes, inv, curns, started, prev, parked, server>>

\* skel.PluginMain answers VERSION with version.All.
Version(p) ==
    /\ pc[p] = "version"
    /\ loc' = [loc EXCEPT ![p].output = "versions"]
    /\ pc' = [pc EXCEPT ![p] = "done"]
    /\ UNCHANGED <<registry, links, routes, inv, curns, started, prev, parked, server>>

----------------------------------------------------------------------------
(* A system call that fails with an error other than "file exists" / "does not
   exist" (out of memory, permission, a dying namespace): the error path the
   code takes at each call. *)

\* The steps between a successful netns.Set(ns) and the function's return.
ScopedPcs ==
    {"cf_find", "cf_rename", "cf_refind", "cf_up", "cf_addr", "cf_setns2", "cf_mac",
     "rt_route"}

\* The message the code wraps the error of each call in; at rt_route the call
\* is the LinkByName of line 295.
ErrorAt(label) ==
    CASE label = "add_mkdir"  -> "failed to create netns directory"
      [] label = "add_ln_id"  -> "failed to create netns symlink"
      [] label = "add_ln_key" -> "failed to create client netns symlink"
      [] label = "gw_getns"   -> "failed to get netns"
      [] label = "gw_find"    -> "failed to find veth interface"
      [] label = "gw_move"    -> "failed to move interface to namespace"
      [] label = "cl_getns"   -> "failed to get client netns"
      [] label = "cl_find"    -> "failed to find client veth"
      [] label = "cl_move"    -> "failed to move client interface to namespace"
      [] label = "cf_getorig" -> "failed to get current netns"
      [] label = "rt_getorig" -> "failed to get current netns"
      [] label = "cf_setns"   -> "failed to set netns"
      [] label = "rt_setns"   -> "failed to set netns"
      [] label = "cf_find"    -> "failed to find link"
      [] label = "cf_rename"  -> "failed to rename interface"
      [] label = "cf_refind"  -> "failed to find renamed link"
      [] label = "cf_up"      -> "failed to bring interface up"
      [] label = "cf_setns2"  -> "failed to set netns for MAC"
      [] label = "cf_mac"     -> "Link not found"
      [] label = "rt_route"   -> "failed to find link for routing"
      [] OTHER -> ""

\* os.Remove fails: cmdAdd logs a warning and goes on to os.Symlink.
RemoveFails(p) ==
    /\ pc[p] \in {"add_rm_id", "add_rm_key"}
    /\ pc' = [pc EXCEPT ![p] = IF pc[p] = "add_rm_id" THEN "add_ln_id" ELSE "add_ln_key"]
    /\ loc' = [loc EXCEPT ![p].injected = TRUE]
    /\ UNCHANGED <<registry, links, routes, inv, curns, started, prev, parked, server>>

\* os.Remove fails in cmdDel: a warning, and cmdDel returns nil.
DelRemoveFails(p) ==
    /\ pc[p] = "del_rm"
    /\ pc' = [pc EXCEPT ![p] = "done"]
    /\ loc' = [loc EXCEPT ![p].injected = TRUE]
    /\ UNCHANGED <<registry, links, routes, inv, curns, started, prev, parked, server>>

\* CallFails that removes the invocation's session entry on the way out.
CallFails_Rollback(p) ==
    /\ ErrorAt(pc[p]) # ""
    /\ loc' = [loc EXCEPT ![p] = Failed([@ EXCEPT !.injected = TRUE], ErrorAt(pc[p]))]
    /\ pc' = [pc EXCEPT ![p] = "done"]
    /\ curns' = [curns EXCEPT ![p] =
                    IF pc[p] \in ScopedPcs THEN ReturnNS(p, ErrorAt(pc[p])) ELSE @]
    /\ registry' = Removed(registry, SessionKey(loc[p].conf))
    /\ UNCHANGED <<links, routes, inv, started, prev, parked, server>>

\* Any other call fails: the function returns the wrapped error, after the
\* deferred restore when the thread has entered the target namespace.
CallFails(p) ==
    /\ ErrorAt(pc[p]) # ""
    /\ loc' = [loc EXCEPT ![p] =
                 Failed([@ EXCEPT
                           !.ran = @ \cup (CASE pc[p] = "gw_getns" -> {"handleGateway"}
                                              [] OTHER -> {}),
                           !.nsAtCall = IF pc[p] \in {"cf_getorig", "rt_getorig"}
                                        THEN curns[p] ELSE @,
                           !.calls = IF pc[p] \in {"cf_getorig", "rt_getorig"}
                                     THEN @ + 1 ELSE @,
                           !.injected = TRUE],
                        ErrorAt(pc[p]))]
    /\ pc' = [pc EXCEPT ![p] = "done"]
    /\ curns' = [curns EXCEPT ![p] =
                    IF pc[p] \in ScopedPcs THEN ReturnNS(p, ErrorAt(pc[p])) ELSE @]
    /\ UNCHANGED <<registry, links, routes, inv, started, prev, parked, server>>

\* The three calls whose "file exists" the code takes for success, the message
\* it wraps their other errors in, and the step that follows them.
TolerantPcs == {"cl_linkadd", "cf_addr", "rt_route"}

TolerantErrorAt(label) ==
    CASE label = "cl_linkadd" -> "failed to create veth pair"
      [] label = "cf_addr"    -> "failed to add address"
      [] label = "rt_route"   -> "failed to add default route"
      [] OTHER -> ""

StepAfter(label) ==
    CASE label = "cl_linkadd" -> "cl_getns"
      [] label = "cf_addr"    -> "cf_setns2"
      [] label = "rt_route"   -> "add_result"
      [] OTHER -> label

\* The name the histories know each of the three calls by.
CallOf(label) ==
    CASE label = "cl_linkadd" -> "veth"
      [] label = "cf_addr"    -> "addr"
      [] label = "rt_route"   -> "route"
      [] OTHER -> ""

\* LinkAdd, AddrAdd or RouteAdd is reached and answers with an error the state
\* of the model does not explain: "file exists" from AddrAdd or RouteAdd (the
\* address or the route has been installed by someone else on the host), or
\* any other error from one of the three.
TolerantCallFails(p) ==
    LET here == pc[p]
        i == loc[p].link
        found == LinkByName(curns[p], RoutingLinkName(p))
        gwIP == ParseIP(HostPart(loc[p].conf.GwAddress))
        reached ==
            CASE here = "cf_addr"  -> IsCIDR(loc[p].cfgAddress)
              [] here = "rt_route" -> found # {} /\ gwIP # ""
              [] OTHER -> TRUE
        errnos == IF here = "cl_linkadd" THEN {"ENOMEM"} ELSE {"EEXIST", "ENOMEM"}
        ran == IF here = "cl_linkadd" THEN {"handleClient"} ELSE {}
    IN
    /\ here \in TolerantPcs
    /\ reached
    /\ \E errno \in errnos :
         IF Tolerated(errno)
         THEN /\ loc' = [loc EXCEPT ![p].tolerated = @ \cup {CallOf(here)},
                                    ![p].injected = TRUE]
              /\ pc' = [pc EXCEPT ![p] = StepAfter(here)]
              /\ links' = IF here = "cf_addr"
                          THEN [links EXCEPT ![i].addrs =
                                    @ \cup {ParsedAddr(loc[p].cfgAddress)}]
                          ELSE links
              /\ routes' = IF here = "rt_route" /\ ~(\E r \in routes : r.ns = curns[p])
                           THEN routes \cup
                                   {[ns |-> curns[p], gw |-> gwIP, link |-> TheOne(found)]}
                           ELSE routes
              /\ curns' = [curns EXCEPT ![p] =
                              IF here = "rt_route" THEN ReturnNS(p, "") ELSE @]
         ELSE /\ loc' = [loc EXCEPT ![p] =
                           Failed([@ EXCEPT !.ran = @ \cup ran,
                                            !.fatal = CallOf(here),
                                            !.injected = TRUE],
                                  TolerantErrorAt(here))]
              /\ pc' = [pc EXCEPT ![p] = "done"]
              /\ curns' = [curns EXCEPT ![p] =
                              IF here \in ScopedPcs
                              THEN ReturnNS(p, TolerantErrorAt(here)) ELSE @]
              /\ UNCHANGED <<links, routes>>
    /\ UNCHANGED <<registry, inv, started, prev, parked, server>>

SyscallFails(p) ==
    \/ RemoveFails(p)
    \/ DelRemoveFails(p)
    \/ CallFails(p)
    \/ TolerantCallFails(p)

----------------------------------------------------------------------------
(* Specifications *)

\* One step of an ADD running in slot p.
StepAdd(p) ==
    \/ cmdAdd_Unmarshal(p)
    \/ cmdAdd_MkdirAll(p)
    \/ cmdAdd_RemoveNsPath(p)
    \/ cmdAdd_SymlinkNsPath(p)
    \/ cmdAdd_RemoveClientNSPath(p)
    \/ cmdAdd_SymlinkClientNSPath(p)
    \/ cmdAdd_Role(p)
    \/ handleGateway_GetFromPath(p)
    \/ handleGateway_LinkByName(p)
    \/ handleGateway_LinkSetNsFd(p)
    \/ handleClient_LinkAdd(p)
    \/ handleClient_GetFromPath(p)
    \/ handleClient_LinkByName(p)
    \/ handleClient_LinkSetNsFd(p)
    \/ configureInterfaceInNS_Get(p)
    \/ configureInterfaceInNS_Set(p)
    \/ configureInterfaceInNS_LinkByName(p)
    \/ configureInterfaceInNS_LinkSetName(p)
    \/ configureInterfaceInNS_LinkByFinalName(p)
    \/ configureInterfaceInNS_LinkSetUp(p)
    \/ configureInterfaceInNS_AddrAdd(p)
    \/ configureInterfaceInNS_SetForMAC(p)
    \/ configureInterfaceInNS_HardwareAddr(p)
    \/ setupClientRouting_Get(p)
    \/ setupClientRouting_Set(p)
    \/ setupClientRouting_RouteAdd(p)
    \/ cmdAdd_PrintResult(p)

\* One step of the invocation running in slot p.
Step(p) ==
    \/ StepAdd(p)
    \/ cmdDel_Unmarshal(p)
    \/ cmdDel_Remove(p)
    \/ cmdCheck(p)
    \/ Version(p)

\* Invocations one after the other: the runtime starts the next plugin process
\* when the one before has exited.
SeqInputs ==
    AddInputs(Confs, IfNames, Containers) \cup DelInputs(GoodConfs)
        \cup GarbageInputs \cup OtherInputs \cup CheckInputs

SeqInvoke ==
    /\ started < MaxInvocations
    /\ \E in \in SeqInputs : Invoke("p1", in)

\* The inputs of the runs in which system calls may fail: as SeqInputs, with
\* well-formed addresses.
FaultInputs ==
    AddInputs(GoodConfs, IfNames, Containers) \cup DelInputs(GoodConfs)
        \cup GarbageInputs \cup OtherInputs

FaultInvoke ==
    /\ started < MaxFaultInvocations
    /\ \E in \in FaultInputs : Invoke("p1", in)

Next == SeqInvoke \/ Step("p1")

Spec == Init /\ [][Next]_vars

\* The same, with system calls that may fail.
NextFault == FaultInvoke \/ Step("p1") \/ SyscallFails("p1")

SpecFault == Init /\ [][NextFault]_vars

\* Two ADD invocations that the runtime starts as two processes, in any
\* interleaving of their system calls.
ConcClientInterfaces  == { <<"c">>, <<"c", "-", "n">> }
ConcSessionNames      == { <<"n">>, <<"n", "-", "n">> }
ConcGatewayInterfaces == { <<"g">>, <<"h">> }
ConcIfNames           == { <<"e">>, <<"g">> }

ConcConfs ==
    [ClientAddress : {<<"10.12.0.1", "/", "32">>}, GwAddress : {<<"10.12.0.2", "/", "32">>},
     ClientInterface : ConcClientInterfaces, GatewayInterface : ConcGatewayInterfaces,
     Name : ConcSessionNames]

\* The two containers are alike: the first process is given the first, without
\* loss of generality.
ConcInputs(p) ==
    AddInputs(ConcConfs, ConcIfNames,
              IF p = "p1" THEN {k \in Containers : k.id = "id1"} ELSE Containers)

ConcInvoke(p) ==
    /\ pc[p] = "idle"
    /\ \E in \in ConcInputs(p) : Invoke(p, in)

NextConc == \E p \in Procs : ConcInvoke(p) \/ StepAdd(p)

SpecConc == Init /\ [][NextConc]_vars

\* A client ADD and a second ADD (of a client with another gateway interface
\* for the same container, or of the gateway for another container) that the
\* runtime starts as two processes; the addresses come in several shapes.
PairClientAddrs == { <<"10.12.0.1", "/", "32">>, <<"10.12.0.1", "/", "16">> }

PairGwAddrs ==
    { <<"10.12.0.2", "/", "32">>, <<"10.12.0.2", "/", "16">>, <<"10.12.0.2">>,
      <<"not-an-ip">> }

PairConfs(clientAddrs, gwAddrs, gatewayInterfaces) ==
    [ClientAddress : clientAddrs, GwAddress : gwAddrs,
     ClientInterface : ClientInterfaces, GatewayInterface : gatewayInterfaces,
     Name : SessionNames]

PairInputs(p) ==
    IF p = "p1"
    THEN AddInputs(PairConfs(PairClientAddrs, PairGwAddrs, {<<"g">>}), {<<"e">>},
                   {k \in Containers : k.id = "id1"})
    ELSE AddInputs(PairConfs({<<"10.12.0.1", "/", "32">>}, {<<"10.12.0.2", "/", "32">>},
                             {<<"h">>}),
                   {<<"e">>}, {k \in Containers : k.id = "id1"})
            \cup AddInputs(PairConfs({<<"10.12.0.1", "/", "32">>}, PairGwAddrs, {<<"g">>}),
                           {<<"g">>}, {k \in Containers : k.id = "id2"})

PairInvoke(p) ==
    /\ pc[p] = "idle"
    /\ \E in \in PairInputs(p) : Invoke(p, in)

NextPair == \E p \in Procs : PairInvoke(p) \/ StepAdd(p)

SpecPair == Init /\ [][NextPair]_vars

\* The same, every process that can take a step taking one in the end: the
\* kernel schedules every runnable process.
SpecPairLive == SpecPair /\ \A p \in Procs : WF_vars(StepAdd(p))

----------------------------------------------------------------------------
(* The Go scheduler and the plugin's goroutine *)

\* func init() { runtime.LockOSThread() }: the main goroutine is wired to the
\* thread it started on, for the life of the process.
Locked_Never(p) == FALSE

Locked(p) == TRUE

\* The scheduler takes the goroutine off its thread and resumes it: on the same
\* thread when the goroutine is locked to it, on any thread of the process
\* otherwise.  curns is the namespace of the thread the goroutine is on, parked
\* that of the thread it is not on.
Schedule(p) ==
    /\ pc[p] \notin {"idle", "done"}
    /\ \E migrate \in (IF Locked(p) THEN {FALSE} ELSE {FALSE, TRUE}) :
          /\ curns' = [curns EXCEPT ![p] = IF migrate THEN parked[p] ELSE @]
          /\ parked' = [parked EXCEPT ![p] = IF migrate THEN curns[p] ELSE @]
    /\ UNCHANGED <<registry, links, routes, pc, inv, loc, started, prev, server>>

\* Invocations one after the other, with the scheduler.
NextSched == SeqInvoke \/ Step("p1") \/ Schedule("p1")

SpecSched == Init /\ [][NextSched]_vars

----------------------------------------------------------------------------
(* The performance server: peers, Stop, acceptTCPConnections, handleTCPClient,
   cleanupStaleClients.  s.clientsMux makes each locked section one step. *)

\* A peer connects: the connection waits in the listener's backlog.
PeerConnect(k) ==
    /\ conn[k].state = "none"
    /\ tcpListener = "open"
    /\ conn' = [conn EXCEPT ![k].state = "backlog"]
    /\ UNCHANGED <<ctx, tcpListener, clients, stop, acceptor, handler, cleaner, plugin>>

\* A peer sends a line of text.
PeerSend(k) ==
    /\ conn[k].state \in {"backlog", "accepted"}
    /\ ~conn[k].peerClosed /\ ~conn[k].closed
    /\ conn[k].sent < MaxLines
    /\ conn' = [conn EXCEPT ![k].lines = @ + 1, ![k].sent = @ + 1]
    /\ UNCHANGED <<ctx, tcpListener, clients, stop, acceptor, handler, cleaner, plugin>>

\* A peer closes its end.
PeerClose(k) ==
    /\ conn[k].state \in {"backlog", "accepted"}
    /\ ~conn[k].peerClosed
    /\ conn' = [conn EXCEPT ![k].peerClosed = TRUE]
    /\ UNCHANGED <<ctx, tcpListener, clients, stop, acceptor, handler, cleaner, plugin>>

\* Stop is called (on a signal): s.cancel()
Stop_Cancel ==
    /\ stop = "idle"
    /\ ctx' = TRUE
    /\ stop' = "close"
    /\ UNCHANGED <<tcpListener, clients, conn, acceptor, handler, cleaner, plugin>>

\* s.tcpListener.Close() (and s.udpConn.Close())
Stop_CloseListener ==
    /\ stop = "close"
    /\ tcpListener' = "closed"
    /\ stop' = "sweep"
    /\ UNCHANGED <<ctx, clients, conn, acceptor, handler, cleaner, plugin>>

\* The connections Stop closes: those of the sessions in the map.
Swept == clients

\* Under the lock: client.TCPConn.Close() for every session in the map; Stop
\* returns.
Stop_CloseClients ==
    /\ stop = "sweep"
    /\ conn' = [k \in Conns |-> IF k \in Swept THEN [conn[k] EXCEPT !.closed = TRUE]
                                 ELSE conn[k]]
    /\ stop' = "returned"
    /\ UNCHANGED <<ctx, tcpListener, clients, acceptor, handler, cleaner, plugin>>

\* select { case <-s.ctx.Done(): return; default: ... }
acceptTCPConnections_Select ==
    /\ acceptor.pc = "select"
    /\ acceptor' = [acceptor EXCEPT !.pc = IF ctx THEN "returned" ELSE "accept"]
    /\ UNCHANGED <<ctx, tcpListener, clients, conn, stop, handler, cleaner, plugin>>

\* conn, err := s.tcpListener.Accept(): an error when the listener is closed
\* (return when the context is cancelled, else log and continue), a connection
\* of the backlog otherwise; Accept blocks while there is none.
acceptTCPConnections_Accept ==
    /\ acceptor.pc = "accept"
    /\ IF tcpListener = "closed"
       THEN /\ acceptor' = [acceptor EXCEPT !.pc = IF ctx THEN "returned" ELSE "select"]
            /\ UNCHANGED conn
       ELSE \E k \in Conns :
               /\ conn[k].state = "backlog"
               /\ conn' = [conn EXCEPT ![k].state = "accepted"]
               /\ acceptor' = [pc |-> "go", conn |-> k]
    /\ UNCHANGED <<ctx, tcpListener, clients, stop, handler, cleaner, plugin>>

\* go s.handleTCPClient(conn)
acceptTCPConnections_Go ==
    /\ acceptor.pc = "go"
    /\ handler' = [handler EXCEPT ![acceptor.conn] = "start"]
    /\ acceptor' = [pc |-> "select", conn |-> ""]
    /\ UNCHANGED <<ctx, tcpListener, clients, conn, stop, cleaner, plugin>>

\* Under the lock: s.clients[clientID] = client
handleTCPClient_Register(k) ==
    /\ handler[k] = "start"
    /\ clients' = clients \cup {k}
    /\ handler' = [handler EXCEPT ![k] = "scan"]
    /\ UNCHANGED <<ctx, tcpListener, conn, stop, acceptor, cleaner, plugin>>

\* scanner.Scan(): false on a connection this side has closed or on the peer's
\* end of file, true with a line when one has arrived; it blocks otherwise.
handleTCPClient_Scan(k) ==
    /\ handler[k] = "scan"
    /\ IF conn[k].closed
       THEN /\ handler' = [handler EXCEPT ![k] = "return"]
            /\ UNCHANGED conn
       ELSE IF conn[k].lines > 0
       THEN /\ conn' = [conn EXCEPT ![k].lines = @ - 1]
            /\ handler' = [handler EXCEPT ![k] = "select"]
       ELSE /\ conn[k].peerClosed
            /\ handler' = [handler EXCEPT ![k] = "return"]
            /\ UNCHANGED conn
    /\ UNCHANGED <<ctx, tcpListener, clients, stop, acceptor, cleaner, plugin>>

\* select { case <-s.ctx.Done(): return; default: processControlMessage }
handleTCPClient_Select(k) ==
    /\ handler[k] = "select"
    /\ handler' = [handler EXCEPT ![k] = IF ctx THEN "return" ELSE "scan"]
    /\ UNCHANGED <<ctx, tcpListener, clients, conn, stop, acceptor, cleaner, plugin>>

\* The deferred calls: delete(s.clients, clientID) under the lock, conn.Close().
handleTCPClient_Return(k) ==
    /\ handler[k] = "return"
    /\ clients' = clients \ {k}
    /\ conn' = [conn EXCEPT ![k].closed = TRUE]
    /\ handler' = [handler EXCEPT ![k] = "returned"]
    /\ UNCHANGED <<ctx, tcpListener, stop, acceptor, cleaner, plugin>>

\* case <-s.ctx.Done(): return
cleanupStaleClients_Done ==
    /\ cleaner = "select"
    /\ ctx
    /\ cleaner' = "returned"
    /\ UNCHANGED <<ctx, tcpListener, clients, conn, stop, acceptor, handler, plugin>>

\* case <-ticker.C: under the lock, the sessions not seen for 60 seconds are
\* closed and deleted.
cleanupStaleClients_Tick ==
    /\ cleaner = "select"
    /\ \E stale \in (SUBSET clients) \ {{}} :
          /\ conn' = [k \in Conns |-> IF k \in stale
                                      THEN [conn[k] EXCEPT !.closed = TRUE]
                                      ELSE conn[k]]
          /\ clients' = clients \ stale
    /\ UNCHANGED <<ctx, tcpListener, stop, acceptor, handler, cleaner, plugin>>

PeerStep == \E k \in Conns : PeerConnect(k) \/ PeerSend(k) \/ PeerClose(k)

StopStep == Stop_CloseListener \/ Stop_CloseClients

AcceptStep ==
    \/ acceptTCPConnections_Select
    \/ acceptTCPConnections_Accept
    \/ acceptTCPConnections_Go

HandlerStep(k) ==
    \/ handleTCPClient_Register(k)
    \/ handleTCPClient_Scan(k)
    \/ handleTCPClient_Select(k)
    \/ handleTCPClient_Return(k)

NextPerf ==
    \/ PeerStep
    \/ Stop_Cancel
    \/ StopStep
    \/ AcceptStep
    \/ \E k \in Conns : HandlerStep(k)
    \/ cleanupStaleClients_Done
    \/ cleanupStaleClients_Tick

SpecPerf == Init /\ [][NextPerf]_vars

\* The Go scheduler runs every goroutine that can take a step: Stop once it has
\* been called, the accept loop, each handler, the cleaner's return.  Nothing
\* makes a peer send or close, a signal arrive or the ticker win the select.
SpecPerfLive ==
    /\ SpecPerf
    /\ WF_vars(StopStep)
    /\ WF_vars(AcceptStep)
    /\ \A k \in Conns : WF_vars(HandlerStep(k))
    /\ WF_vars(cleanupStaleClients_Done)

----------------------------------------------------------------------------
(* Properties *)

Done(p) == pc[p] = "done"

\* An ADD whose stdin parsed.
IsAdd(p) == inv[p].cmd = "ADD" /\ inv[p].parseable

IsDel(p) == inv[p].cmd = "DEL" /\ inv[p].parseable

\* The role the claims give an invocation, from its inputs alone.
GatewayRole(p) == inv[p].ifName = inv[p].conf.GatewayInterface

RoleAddress(p) ==
    IF GatewayRole(p) THEN inv[p].conf.GwAddress ELSE inv[p].conf.ClientAddress

\* The namespace an invocation was given.
OwnNS(p) == NsOfPath(inv[p].netns)

\* C1 (as claimed): a second ADD with the inputs of a first, successful ADD
\* returns no error and emits the same result.
C1_IdempotentAdd ==
    \A p \in Procs :
        (Done(p) /\ IsAdd(p) /\ prev.valid /\ prev.inv = inv[p]
            /\ prev.err = "" /\ prev.output = "result")
        => (loc[p].err = "" /\ loc[p].output = "result" /\ loc[p].result = prev.result)

\* C2 (as claimed, for the invocations that report the address error): an ADD
\* whose role address is no CIDR and that fails with the address error has
\* created no veth, moved, renamed or brought up no link and written no entry.
C2_MalformedAddressNoSideEffect ==
    \A p \in Procs :
        (Done(p) /\ IsAdd(p) /\ ~IsCIDR(RoleAddress(p))
            /\ loc[p].err = "failed to parse address")
        => loc[p].touched \cap {"veth", "move", "rename", "up", "reg_id", "reg_key"} = {}

\* C3 (as claimed): a client ADD with a well-formed configuration whose link
\* was moved, renamed, brought up and addressed ends with a result, the link
\* named args.IfName in the session namespace, up, with client_address, and a
\* default route through it to the host part of gw_address.
C3_ClientPathOutcome ==
    \A p \in Procs :
        (Done(p) /\ IsAdd(p) /\ ~GatewayRole(p) /\ inv[p].conf \in GoodConfs
            /\ {"move", "rename", "up", "addr"} \subseteq loc[p].touched)
        => /\ loc[p].err = ""
           /\ loc[p].output = "result"
           /\ \E i \in LinkByName(loc[p].targetNS, inv[p].ifName) :
                 /\ links[i].up
                 /\ ParsedAddr(inv[p].conf.ClientAddress) \in links[i].addrs
                 /\ [ns |-> loc[p].targetNS,
                     gw |-> ParseIP(HostPart(inv[p].conf.GwAddress)),
                     link |-> i] \in routes

\* C4 (as claimed): of two ADDs with different session triples, each finds,
\* moves and configures only veth ends created for its own session.
C4_OwnVethEndsOnly ==
    (IsAdd("p1") /\ IsAdd("p2") /\ Triple(inv["p1"].conf) # Triple(inv["p2"].conf))
    => \A p \in Procs : \A i \in loc[p].seen \cup loc[p].moved :
           links[i].session = Triple(inv[p].conf)

\* C5 (as claimed): after two concurrent ADDs for different containers with
\* different session triples, each session-key entry and each container-ID
\* entry exists and maps to the netns path of its own invocation.
C5_RegistryEntriesKept ==
    (/\ \A p \in Procs : Done(p) /\ IsAdd(p)
     /\ Triple(inv["p1"].conf) # Triple(inv["p2"].conf)
     /\ inv["p1"].id # inv["p2"].id)
    => \A p \in Procs :
          /\ SessionKey(inv[p].conf) \in DOMAIN registry
          /\ registry[SessionKey(inv[p].conf)] = inv[p].netns
          /\ ContainerKey(inv[p].id) \in DOMAIN registry
          /\ registry[ContainerKey(inv[p].id)] = inv[p].netns

\* The steps at which a call of a namespace-scoped function is under way.
InCall(p) == pc[p] \in ScopedPcs \cup {"cf_setns", "rt_setns"}

C7_DelLenient ==
    \A p \in Procs :
        (Done(p) /\ IsDel(p))
        => (loc[p].err = "" /\ SessionKey(inv[p].conf) \notin DOMAIN registry)

\* A DEL right after a DEL with the same configuration, after an ADD.
C7_Witness ==
    /\ Done("p1") /\ IsDel("p1")
    /\ prev.valid /\ prev.inv = inv["p1"] /\ prev.err = ""
    /\ ContainerKey(inv["p1"].id) \in DOMAIN registry

\* C8 (as claimed): after an ADD and the DEL for the same container and
\* configuration, neither entry the ADD wrote is in the registry.
C8_EntriesRemovedByDel ==
    \A p \in Procs :
        (Done(p) /\ IsDel(p) /\ prev.valid /\ prev.inv.cmd = "ADD"
            /\ prev.inv.id = inv[p].id /\ prev.inv.conf = inv[p].conf
            /\ {"reg_id", "reg_key"} \subseteq prev.touched)
        => /\ ContainerKey(inv[p].id) \notin DOMAIN registry
           /\ SessionKey(inv[p].conf) \notin DOMAIN registry

\* The steps of handleGateway and of handleClient, with the calls they make.
GatewayPcs == {"gw_getns", "gw_find", "gw_move"}
ClientPcs == {"cl_linkadd", "cl_getns", "cl_find", "cl_move", "rt_getorig", "rt_setns",
              "rt_route"}
AfterRolePcs ==
    (GatewayPcs \cup ClientPcs \cup ScopedPcs \cup {"cf_getorig", "cf_setns", "add_result"})
        \ {"gw_getns", "cl_linkadd"}

\* C9: an ADD runs handleGateway exactly when args.IfName equals
\* conf.gateway_interface and handleClient otherwise, never both, one of them
\* once it is past the choice; the address of the result is gw_address for the
\* gateway and client_address for the client.
C9_RoleDeterminism ==
    \A p \in Procs :
        IsAdd(p) =>
            LET role == IF GatewayRole(p) THEN "handleGateway" ELSE "handleClient" IN
            /\ loc[p].ran \subseteq {role}
            /\ (pc[p] \in GatewayPcs => role = "handleGateway")
            /\ (pc[p] \in ClientPcs => role = "handleClient")
            /\ (pc[p] \in AfterRolePcs \/ loc[p].output = "result") =>
                   /\ loc[p].ran = {role}
                   /\ loc[p].address = RoleAddress(p)
            /\ loc[p].output = "result" =>
                   /\ loc[p].result.IPs[1].Address.IP = ParseIP(HostPart(RoleAddress(p)))
                   /\ loc[p].result.IPs[1].Address.Mask = getSubnetMaskSize(RoleAddress(p))

\* A gateway ADD that emitted its result, after a client ADD with the same
\* configuration.
C9_Witness ==
    /\ Done("p1") /\ IsAdd("p1") /\ GatewayRole("p1")
    /\ loc["p1"].output = "result"
    /\ prev.valid /\ prev.inv.cmd = "ADD" /\ prev.inv.conf = inv["p1"].conf
    /\ prev.ran = {"handleClient"}

\* What C10 promises of a gateway ADD that is over.
GatewayOutcome(p) ==
    /\ loc[p].err = ""
    /\ loc[p].output = "result"
    /\ LinkByName(RootNS, VethName(inv[p].conf.GatewayInterface)) = {}
    /\ \E i \in LinkByName(OwnNS(p), inv[p].ifName) :
          /\ i \in loc[p].moved
          /\ links[i].up
          /\ ParsedAddr(inv[p].conf.GwAddress) \in links[i].addrs
          /\ loc[p].mac = links[i].mac
          /\ loc[p].result.Interfaces[1].Mac = links[i].mac

\* A gateway ADD with a well-formed gw_address, started when the root
\* namespace had a link with the transient name.
GatewayPrecondition(p) ==
    /\ Done(p) /\ IsAdd(p) /\ GatewayRole(p)
    /\ IsCIDR(inv[p].conf.GwAddress)
    /\ VethName(inv[p].conf.GatewayInterface) \in loc[p].pre.root

IsAddCmd(p) == inv[p].cmd = "ADD"

\* The steps of cmdAdd between the parse and the choice of the role, and those
\* of the role's configuration path.
ConfigParsedPcs ==
    {"add_mkdir", "add_rm_id", "add_ln_id", "add_rm_key", "add_ln_key", "add_role"}
RolePathPcs == GatewayPcs \cup ClientPcs \cup ScopedPcs \cup {"cf_getorig", "cf_setns"}

\* The state of section 4.5 an ADD is in, as a number that grows along
\* Start, ConfigParsed, RoleDetermined, Gateway-/ClientConfigured,
\* ResultEmitted; Failed is 9.
AddState(p) ==
    CASE pc[p] = "add_parse" -> 0
      [] pc[p] \in ConfigParsedPcs -> 1
      [] pc[p] \in RolePathPcs -> 2
      [] pc[p] = "add_result" -> 3
      [] pc[p] = "done" /\ loc[p].err = "" -> 4
      [] OTHER -> 9

\* The configuration path of the role has run to its end.
RolePathComplete(p) ==
    /\ loc[p].ran = {IF GatewayRole(p) THEN "handleGateway" ELSE "handleClient"}
    /\ {"move", "up"} \subseteq loc[p].touched
    /\ "addr" \in loc[p].touched \cup loc[p].tolerated
    /\ loc[p].mac # 0
    /\ GatewayRole(p) \/ "route" \in loc[p].touched \cup loc[p].tolerated

\* A step of the invocation in slot p (not the start of the next one).
StepOf(p) == started' = started /\ inv[p].cmd = "ADD"

\* C11: an ADD goes through Start, ConfigParsed, RoleDetermined,
\* Gateway-/ClientConfigured, ResultEmitted in this order, one state at a time;
\* the first error a step returns ends the invocation with that error, the
\* failing step and everything after it changing no link, address, route or
\* registry entry; a result is emitted only by an invocation without error
\* whose role path has run to its end.
C11_FailFast ==
    /\ [](\A p \in Procs : IsAddCmd(p) =>
            /\ loc[p].err # "" => (pc[p] = "done" /\ loc[p].output = "")
            /\ pc[p] = "add_result" => RolePathComplete(p)
            /\ loc[p].output = "result" =>
                  (pc[p] = "done" /\ loc[p].err = "" /\ RolePathComplete(p)))
    /\ [][\A p \in Procs : StepOf(p) =>
            /\ \/ AddState(p)' = AddState(p)
               \/ AddState(p)' = AddState(p) + 1
               \/ AddState(p)' = 9 /\ loc'[p].err # ""
            /\ (loc'[p].err # "" /\ pc[p] # "idle") =>
                  UNCHANGED <<registry, links, routes>>
            /\ loc[p].err # "" => loc'[p].err = loc[p].err]_vars

\* An ADD that failed at the address of a link it had moved, renamed and
\* brought up, and that emitted nothing.
C11_Witness ==
    /\ Done("p1") /\ IsAddCmd("p1")
    /\ loc["p1"].err = "failed to add address"
    /\ {"move", "rename", "up"} \subseteq loc["p1"].touched
    /\ loc["p1"].output = ""

\* The marks of an invocation on the registry and on the veth pair.
PartialMarks == {"reg_id", "reg_key", "veth", "move", "rename", "up", "addr"}

\* C12 (as claimed, for the gateway role): a gateway ADD had what it needs (the
\* transient link in the root namespace, its names free in the namespace at
\* args.Netns) and was ended by a failing system call after it had touched the
\* registry or the veth pair; the ADD with the same arguments that follows it,
\* in which no system call fails, returns no error and emits a result.
C12_RetryCompletes ==
    \A p \in Procs :
        (/\ Done(p) /\ IsAdd(p) /\ GatewayRole(p)
         /\ prev.valid /\ prev.inv = inv[p]
         /\ prev.err # "" /\ prev.injected
         /\ VethName(inv[p].conf.GatewayInterface) \in prev.pre.root
         /\ inv[p].ifName \notin prev.pre.target
         /\ VethName(inv[p].conf.GatewayInterface) \notin prev.pre.target
         /\ prev.touched \cap PartialMarks # {}
         /\ ~loc[p].injected)
        => (loc[p].err = "" /\ loc[p].output = "result")

\* The message of the call the histories know as c.
MessageOf(c) == TolerantErrorAt(CHOOSE label \in TolerantPcs : CallOf(label) = c)

RegistryStepPcs == {"add_parse"} \cup (ConfigParsedPcs \ {"add_role"})

\* C14: once an ADD is past its registry step, the container-ID entry and the
\* session-key entry exist and map to args.Netns of this ADD, whatever the
\* registry held before; entries that are there already do not make the step
\* fail.
C14_RegistryPut ==
    \A p \in Procs :
        (IsAdd(p) /\ pc[p] \notin RegistryStepPcs \cup {"idle"})
        => /\ loc[p].err \notin {"failed to create netns symlink",
                                 "failed to create client netns symlink"}
           /\ ContainerKey(inv[p].id) \in DOMAIN registry
           /\ registry[ContainerKey(inv[p].id)] = inv[p].netns
           /\ SessionKey(inv[p].conf) \in DOMAIN registry
           /\ registry[SessionKey(inv[p].conf)] = inv[p].netns

\* An ADD past its registry step, right after an ADD of the same session for
\* another container, whose session-key entry it found and replaced.
C14_Witness ==
    /\ IsAdd("p1") /\ pc["p1"] = "add_role"
    /\ prev.valid /\ prev.inv.cmd = "ADD" /\ prev.inv.conf = inv["p1"].conf
    /\ prev.inv.netns # inv["p1"].netns
    /\ "reg_key" \in prev.touched
    /\ ContainerKey(prev.inv.id) \in DOMAIN registry

\* The marks of an invocation on links, addresses and routes.
LinkMarks == {"veth", "move", "rename", "up", "addr", "route"}

\* C15: a gateway ADD started when the root namespace has no link with the
\* transient name fails with "failed to find veth interface", emits no result,
\* and creates, moves, renames or configures no link.
C15_GatewayNoVethEnd ==
    \A p \in Procs :
        (/\ Done(p) /\ IsAdd(p) /\ GatewayRole(p)
         /\ VethName(inv[p].conf.GatewayInterface) \notin loc[p].pre.root)
        => /\ loc[p].err = "failed to find veth interface"
           /\ loc[p].output = ""
           /\ loc[p].touched \cap LinkMarks = {}
           /\ loc[p].moved = {}

\* Such an ADD, when the end that was there has been moved by the gateway ADD
\* before it.
C15_Witness ==
    /\ Done("p1") /\ IsAdd("p1") /\ GatewayRole("p1")
    /\ VethName(inv["p1"].conf.GatewayInterface) \notin loc["p1"].pre.root
    /\ loc["p1"].err = "failed to find veth interface"
    /\ prev.valid /\ prev.output = "result" /\ prev.inv.ifName = inv["p1"].ifName
    /\ {"reg_id", "reg_key"} \subseteq loc["p1"].touched

\* C16: an ADD whose stdin is not JSON ends with "failed to parse network
\* configuration" and without a result; no step of it creates the registry
\* directory, removes or writes a registry entry, touches a link, an address
\* or a route, or changes the namespace of its thread.
C16_MalformedConfig ==
    /\ [](\A p \in Procs : (Done(p) /\ IsAddCmd(p) /\ ~inv[p].parseable) =>
            /\ loc[p].err = "failed to parse network configuration"
            /\ loc[p].output = ""
            /\ loc[p].touched = {} /\ loc[p].ran = {} /\ loc[p].calls = 0)
    /\ [][\A p \in Procs : (StepOf(p) /\ ~inv[p].parseable) =>
            UNCHANGED <<registry, links, routes, curns>>]_vars

\* Such an ADD, on a host that has registry entries and links to lose.
C16_Witness ==
    /\ Done("p1") /\ IsAddCmd("p1") /\ ~inv["p1"].parseable
    /\ loc["p1"].err = "failed to parse network configuration"
    /\ ContainerKey(inv["p1"].id) \in DOMAIN registry
    /\ DOMAIN links # {}

\* C17: the result of an ADD whose role address is a well-formed CIDR a/n
\* carries the IP a and the mask of n ones; the default route a client ADD with
\* a well-formed gw_address g/m installed has the gateway g.
C17_AddressRoundTrip ==
    \A p \in Procs : IsAdd(p) =>
        /\ (loc[p].output = "result" /\ IsCIDR(RoleAddress(p))) =>
              /\ loc[p].result.IPs[1].Address.IP = RoleAddress(p)[1]
              /\ loc[p].result.IPs[1].Address.Mask = PrefixLen(RoleAddress(p)[3])
        /\ ("route" \in loc[p].touched /\ IsCIDR(inv[p].conf.GwAddress)) =>
              \E r \in routes :
                  /\ r.ns = loc[p].targetNS
                  /\ r.gw = inv[p].conf.GwAddress[1]

\* A client ADD with the addresses 10.12.0.1/16 and 10.12.0.2/16 that installed
\* the route and emitted its result.
C17_Witness ==
    /\ Done("p1") /\ IsAdd("p1") /\ ~GatewayRole("p1")
    /\ inv["p1"].conf.ClientAddress = <<"10.12.0.1", "/", "16">>
    /\ inv["p1"].conf.GwAddress = <<"10.12.0.2", "/", "16">>
    /\ loc["p1"].output = "result"
    /\ loc["p1"].result.IPs[1].Address = [IP |-> "10.12.0.1", Mask |-> 16]
    /\ \E r \in routes : r.gw = "10.12.0.2"

\* C18: the result an ADD emits has one interface, named args.IfName, with the
\* sandbox args.Netns and the hardware address of the one link this ADD moved
\* and configured, and one IP, of interface 0 and with the gateway 0.0.0.0.
C18_ResultContent ==
    \A p \in Procs : (IsAdd(p) /\ loc[p].output = "result") =>
        LET r == loc[p].result IN
        /\ Len(r.Interfaces) = 1
        /\ r.Interfaces[1].Name = inv[p].ifName
        /\ r.Interfaces[1].Sandbox = inv[p].netns
        /\ \E i \in DOMAIN links :
              /\ loc[p].moved = {i}
              /\ {"up", "addr"} \subseteq loc[p].touched
              /\ r.Interfaces[1].Mac = links[i].mac
        /\ Len(r.IPs) = 1
        /\ r.IPs[1].Interface = 0
        /\ r.IPs[1].Gateway = "0.0.0.0"

\* The result of a gateway ADD for the second container, which configured the
\* peer of the link a client ADD took.
C18_Witness ==
    /\ Done("p2") /\ IsAdd("p2") /\ GatewayRole("p2")
    /\ loc["p2"].output = "result"
    /\ loc["p2"].result.Interfaces[1] =
          [Name |-> <<"g">>, Mac |-> 2, Sandbox |-> "/proc/202/ns/net"]
    /\ links[1].name = <<"e">>

\* C19: of two ADDs running as concurrent processes, each that has started
\* ends, with a result and no error or with an error and no result; until
\* then it can take its next step whatever the other does, and it ends so as
\* well when the veth end it looks for is missing or the pair it creates is
\* there already.
C19_Terminates ==
    /\ [](\A p \in Procs :
            /\ Done(p) => \/ loc[p].output = "result" /\ loc[p].err = ""
                          \/ loc[p].output = "" /\ loc[p].err # ""
            /\ pc[p] \notin {"idle", "done"} => ENABLED StepAdd(p))
    /\ \A p \in Procs : (pc[p] # "idle") ~> Done(p)

\* Both have ended: the gateway ADD, which ran before the pair was there, with
\* "failed to find veth interface", the client ADD with an error of its own.
C19_Witness ==
    /\ Done("p1") /\ Done("p2")
    /\ GatewayRole("p2") /\ ~GatewayRole("p1")
    /\ loc["p2"].err = "failed to find veth interface"
    /\ "veth" \in loc["p1"].touched
    /\ loc["p1"].err # ""

\* C20: CHECK ends with an error and without output, whatever its stdin and
\* its arguments, and no step of it changes a registry entry, a link, an
\* address, a route or the namespace of its thread.
C20_CheckUnsupported ==
    /\ [](\A p \in Procs : (Done(p) /\ inv[p].cmd = "CHECK") =>
            /\ loc[p].err # ""
            /\ loc[p].output = ""
            /\ loc[p].touched = {})
    /\ [][\A p \in Procs : (started' = started /\ inv[p].cmd = "CHECK") =>
            UNCHANGED <<registry, links, routes, curns>>]_vars

\* A CHECK for the attachment a gateway ADD made, which is still there.
C20_Witness ==
    /\ Done("p1") /\ inv["p1"].cmd = "CHECK" /\ inv["p1"].conf \in GoodConfs
    /\ loc["p1"].err = "CHECK not supported"
    /\ prev.valid /\ prev.inv.cmd = "ADD" /\ prev.output = "result"
    /\ prev.inv.id = inv["p1"].id
    /\ SessionKey(inv["p1"].conf) \in DOMAIN registry
    /\ LinkByName(OwnNS("p1"), inv["p1"].ifName) # {}

\* C21: VERSION ends without error with the supported versions as its output,
\* and no step of it changes a registry entry, a link, an address, a route or
\* the namespace of a link or of its thread.
C21_VersionReadOnly ==
    /\ [](\A p \in Procs : (Done(p) /\ inv[p].cmd = "VERSION") =>
            /\ loc[p].err = ""
            /\ loc[p].output = "versions"
            /\ loc[p].touched = {})
    /\ [][\A p \in Procs : (started' = started /\ inv[p].cmd = "VERSION") =>
            UNCHANGED <<registry, links, routes, curns>>]_vars

\* A VERSION on a host where ADDs have left registry entries and a configured
\* link.
C21_Witness ==
    /\ Done("p1") /\ inv["p1"].cmd = "VERSION"
    /\ loc["p1"].output = "versions"
    /\ DOMAIN registry # {}
    /\ \E i \in DOMAIN links : links[i].up /\ links[i].addrs # {}

\* C22 (as claimed): when a gateway ADD and a client ADD of one session triple
\* run as two processes for two containers, every link either of them has
\* moved is in the namespace at the mover's own args.Netns, and the mover took
\* that namespace for its target.
C22_EndsInOwnNamespace ==
    (/\ IsAdd("p1") /\ IsAdd("p2")
     /\ Triple(inv["p1"].conf) = Triple(inv["p2"].conf)
     /\ GatewayRole("p1") # GatewayRole("p2")
     /\ OwnNS("p1") # OwnNS("p2"))
    => \A p \in Procs : \A i \in loc[p].moved :
          /\ loc[p].targetNS = OwnNS(p)
          /\ links[i].ns = OwnNS(p)


\* C23 (as claimed): the veth pair a client-path ADD creates has one end named
\* "pisp" followed by the config's client_interface and the other named "pisp"
\* followed by the config's gateway_interface, whatever args.IfName selected the
\* client path; the second is the name handleGateway looks up.
C23_VethEndNames ==
    [][\A p \in Procs :
          (/\ pc[p] = "cl_linkadd"
           /\ pc'[p] = "cl_getns"
           /\ DOMAIN links' # DOMAIN links)
          => {links'[i].name : i \in (DOMAIN links') \ (DOMAIN links)}
               = {VethName(loc[p].conf.ClientInterface), vethName(loc[p].conf)}]_vars

\* The end of a veth pair that handleClient creates under the client's transient
\* name (the first of the two), and the end it creates for the gateway.
IsClientEnd(i) == links[i].peer > i

\* The ends of one role of session t that are in namespace ns.
EndsIn(ns, t, clientEnd) ==
    {i \in DOMAIN links :
        /\ links[i].ns = ns
        /\ links[i].session = t
        /\ IsClientEnd(i) = clientEnd}

\* The namespaces of the containers.
ContainerNS == {NsOfPath(c.netns) : c \in Containers}

\* C24 (as claimed): over any sequence of ADD invocations each veth end changes
\* namespace at most once (it leaves the root namespace and never comes back or
\* moves on), a step moves at most one end and an invocation has moved at most
\* one, and of one session at most one client end and at most one gateway end
\* is ever in a container's namespace.
C24_RelocatedOnce ==
    /\ [](/\ \A p \in Procs : Cardinality(loc[p].moved) <= 1
          /\ \A ns \in ContainerNS : \A i \in DOMAIN links :
                /\ Cardinality(EndsIn(ns, links[i].session, TRUE)) <= 1
                /\ Cardinality(EndsIn(ns, links[i].session, FALSE)) <= 1)
    /\ [][/\ \A i \in DOMAIN links :
               links'[i].ns # links[i].ns
               => links[i].ns = RootNS /\ links'[i].ns # RootNS
          /\ Cardinality({i \in DOMAIN links : links'[i].ns # links[i].ns}) <= 1]_vars

\* An ADD that wrote both registry entries and then returned an error.
FailedAfterRegistry(p) ==
    /\ Done(p) /\ IsAdd(p)
    /\ loc[p].err # ""
    /\ {"reg_id", "reg_key"} \subseteq loc[p].touched

\* C25: an ADD that fails after the registry step leaves what it had done: its
\* two registry entries point to args.Netns, the pair it created exists, the
\* link it moved is in the target namespace, under the final name if it renamed
\* it, up if it brought it up, with the address if it added it; the failing
\* step itself changes no registry entry, link or route.
C25_NoRollback ==
    /\ [](\A p \in Procs : FailedAfterRegistry(p) =>
            /\ ContainerKey(inv[p].id) \in DOMAIN registry
            /\ registry[ContainerKey(inv[p].id)] = inv[p].netns
            /\ SessionKey(loc[p].conf) \in DOMAIN registry
            /\ registry[SessionKey(loc[p].conf)] = inv[p].netns
            /\ "veth" \in loc[p].touched =>
                  \E i \in DOMAIN links :
                     /\ links[i].session = Triple(loc[p].conf)
                     /\ links[i].peer \in DOMAIN links
                     /\ links[links[i].peer].peer = i
            /\ \A i \in loc[p].moved : links[i].ns = loc[p].targetNS
            /\ "rename" \in loc[p].touched =>
                  links[loc[p].link].name = loc[p].finalName
            /\ "up" \in loc[p].touched => links[loc[p].link].up
            /\ "addr" \in loc[p].touched =>
                  ParsedAddr(loc[p].cfgAddress) \in links[loc[p].link].addrs)
    /\ [][\A p \in Procs :
            (/\ StepOf(p)
             /\ "reg_key" \in loc[p].touched
             /\ loc[p].err = "" /\ loc'[p].err # "")
            => /\ registry' = registry
               /\ links' = links
               /\ routes' = routes]_vars

\* An ADD that created the pair, moved, renamed, brought up and addressed its
\* end, and was then ended by a system call that failed.
C25_Witness ==
    /\ FailedAfterRegistry("p1")
    /\ loc["p1"].injected
    /\ {"veth", "move", "rename", "up", "addr"} \subseteq loc["p1"].touched

\* The link configureInterfaceInNS holds.
Held(p) == links[loc[p].link]

\* C26: configureInterfaceInNS goes on to LinkSetName exactly when the name it
\* was given differs from the final name, and the rename gives the link the
\* final name; the link it brings up and the link it adds the address to are
\* in the target namespace under the final name; when it returns without
\* error, the hardware address it returns is that of this link, the only link
\* of the target namespace with the final name.
C26_ConfiguratorRenameAndMAC ==
    [][\A p \in Procs : StepOf(p) =>
          /\ (pc[p] = "cf_find" /\ pc'[p] \in {"cf_rename", "cf_up"}) =>
                (pc'[p] = "cf_rename" <=> loc[p].linkName # loc[p].finalName)
          /\ (pc[p] = "cf_rename" /\ pc'[p] = "cf_refind") =>
                /\ Held(p).name = loc[p].linkName
                /\ Held(p).name # loc[p].finalName
                /\ links'[loc[p].link].name = loc[p].finalName
          /\ (pc[p] = "cf_up" /\ pc'[p] = "cf_addr") =>
                /\ Held(p).name = loc[p].finalName
                /\ Held(p).ns = loc[p].targetNS
                /\ links'[loc[p].link].up
          /\ (pc[p] = "cf_addr" /\ pc'[p] = "cf_setns2") =>
                /\ Held(p).name = loc[p].finalName
                /\ Held(p).ns = loc[p].targetNS
                /\ ParsedAddr(loc[p].cfgAddress) \in links'[loc[p].link].addrs
          /\ (pc[p] = "cf_mac" /\ pc'[p] \in {"add_result", "rt_getorig"}) =>
                /\ LinkByName(loc[p].targetNS, loc[p].finalName) = {loc[p].link}
                /\ Held(p).up
                /\ loc'[p].mac = Held(p).mac]_vars

\* configureInterfaceInNS has just returned the hardware address of the link
\* it renamed, brought up and addressed.
C26_Witness ==
    /\ pc["p1"] \in {"add_result", "rt_getorig"}
    /\ {"rename", "up", "addr"} \subseteq loc["p1"].touched
    /\ loc["p1"].mac = Held("p1").mac
    /\ Held("p1").name = inv["p1"].ifName

\* The steps that call into the root namespace: veth creation, the lookup of a
\* transient name, the move of a link.
RootOpPcs == {"cl_linkadd", "cl_find", "cl_move", "gw_find", "gw_move"}

\* C27: the thread the process does not run on is never outside the root
\* namespace; every step between netns.Set(ns) and the return of a
\* namespace-scoped function runs on a thread that is in the target namespace
\* (the thread that entered it); veth creation, link lookup and link move run
\* on a thread that is in the root namespace.
C27_ThreadPinning ==
    \A p \in Procs :
        /\ parked[p] = RootNS
        /\ pc[p] \in ScopedPcs => curns[p] = loc[p].targetNS
        /\ pc[p] \in RootOpPcs => curns[p] = RootNS

\* A namespace-scoped block under way in a container's namespace, after it has
\* renamed the link there.
C27_Witness ==
    /\ pc["p1"] \in ScopedPcs
    /\ curns["p1"] = loc["p1"].targetNS
    /\ curns["p1"] # RootNS
    /\ "rename" \in loc["p1"].touched

\* C28 (as claimed): an ADD that has completed its registry step and is the only
\* ADD for its triple (hence the most recent one for it) finds, whenever no
\* other ADD is in the middle of writing a session-key entry, the session-key
\* entry mapping to its own args.Netns, and when it is a client, the namespace
\* it has resolved through the session key is the one at its own args.Netns.
C28_SessionEntryLastWriter ==
    \A p \in Procs :
        (/\ IsAdd(p)
         /\ "reg_key" \in loc[p].touched
         /\ \A q \in Procs \ {p} :
               /\ Triple(inv[q].conf) # Triple(inv[p].conf)
               /\ pc[q] \notin {"add_rm_key", "add_ln_key"})
        => /\ SessionKey(inv[p].conf) \in DOMAIN registry
           /\ registry[SessionKey(inv[p].conf)] = inv[p].netns
           /\ pc[p] \in {"cl_find", "cl_move"} => loc[p].targetNS = OwnNS(p)

\* C29: no step of a DEL changes a link (its namespace, name, state or
\* addresses), a route, or the namespace of the thread.
C29_DelLeavesKernelState ==
    [][\A p \in Procs :
          (inv[p].cmd = "DEL" /\ started' = started)
          => /\ links' = links
             /\ routes' = routes
             /\ curns' = curns]_vars

\* A DEL that has removed the session entry, after an ADD of the same session
\* that moved, renamed, brought up and addressed a veth end, which is still
\* where and as the ADD left it.
C29_Witness ==
    /\ Done("p1") /\ IsDel("p1")
    /\ "unlink" \in loc["p1"].touched
    /\ prev.valid /\ prev.inv.cmd = "ADD" /\ prev.inv.conf = inv["p1"].conf
    /\ {"move", "rename", "up", "addr"} \subseteq prev.touched
    /\ \E i \in DOMAIN links :
          /\ links[i].ns = NsOfPath(prev.inv.netns)
          /\ links[i].name = prev.inv.ifName
          /\ links[i].up
          /\ links[i].addrs # {}

\* Every handler that was started has returned, no handler can be started any
\* more, and the map of sessions is empty.
Drained ==
    /\ acceptor.pc = "returned"
    /\ \A k \in Conns : handler[k] \in {"none", "returned"}
    /\ clients = {}

\* C30 (as claimed): once Stop has been called, the server gets to a state in
\* which every TCP client handler has returned and s.clients is empty, in every
\* interleaving of Stop with the accept loop and the handlers.
C30_StopDrainsHandlers == (stop # "idle") ~> Drained
====
